---- MODULE Spec2Model ----
(***************************************************************************)
(* Model of app/recipe/views.py: the recipe endpoint (RecipeViewSet) and   *)
(* the tag / ingredient endpoints (BaseRecipeAttrViewSet and its two       *)
(* bindings).  The state is the three tables the views query plus the      *)
(* request being served and the response produced for it.  One action per  *)
(* handler; each action is the whole request: authentication, permission,  *)
(* routing, get_queryset / get_object, the serializer and the response.    *)
(*                                                                         *)
(* Strings (query parameter values) are sequences of one-character         *)
(* strings, so that split(',') and int() are computed, not assumed.        *)
(* Names of tags / ingredients are numbers standing for their position in  *)
(* the database collation, which is all that order_by('-name') reads.      *)
(***************************************************************************)
EXTENDS Integers, Sequences, FiniteSets, TLC

VARIABLES recipes, attrs, seq, request, response

vars == <<recipes, attrs, seq, request, response>>

(***************************************************************************)
(* Bounds of the model.                                                    *)
(***************************************************************************)
MaxRows == 3

(***************************************************************************)
(* Users.  Anonymous is a request that carries no valid token.             *)
(***************************************************************************)
Users == {"U1", "U2"}
Anonymous == "anonymous"
Requesters == Users \cup {Anonymous}

Kinds == {"tags", "ingredients"}
Names == {1, 2}
NoImage == 0
Images == {1}

(***************************************************************************)
(* Sequence helpers.                                                       *)
(***************************************************************************)
Range(s) == {s[i] : i \in 1..Len(s)}

RemoveAt(s, i) == SubSeq(s, 1, i - 1) \o SubSeq(s, i + 1, Len(s))

Max(S) == CHOOSE x \in S : \A y \in S : y <= x
Min(S) == CHOOSE x \in S : \A y \in S : x <= y

RECURSIVE SetToSeq(_)
SetToSeq(S) == IF S = {} THEN <<>> ELSE <<Min(S)>> \o SetToSeq(S \ {Min(S)})

RECURSIVE Concat(_)
Concat(ss) == IF ss = <<>> THEN <<>> ELSE Head(ss) \o Concat(Tail(ss))

Replicate(x, n) == [i \in 1..n |-> x]

(***************************************************************************)
(* Strings: str.split(',') and int(str).  int() accepts an optional sign   *)
(* followed by one or more decimal digits; anything else (the empty        *)
(* string, a letter) raises ValueError.  A conversion that raises is the   *)
(* record [ok |-> FALSE].                                                  *)
(***************************************************************************)
Digits == {"0", "1", "2", "3", "4", "5", "6", "7", "8", "9"}

DigitVal ==
    "0" :> 0 @@ "1" :> 1 @@ "2" :> 2 @@ "3" :> 3 @@ "4" :> 4 @@
    "5" :> 5 @@ "6" :> 6 @@ "7" :> 7 @@ "8" :> 8 @@ "9" :> 9

RECURSIVE split(_)
split(s) ==
    IF \E i \in 1..Len(s) : s[i] = ","
    THEN LET i == Min({j \in 1..Len(s) : s[j] = ","})
         IN  <<SubSeq(s, 1, i - 1)>> \o split(SubSeq(s, i + 1, Len(s)))
    ELSE <<s>>

RECURSIVE DecimalValue(_)
DecimalValue(ds) ==
    IF ds = <<>> THEN 0
    ELSE 10 * DecimalValue(SubSeq(ds, 1, Len(ds) - 1)) + DigitVal[ds[Len(ds)]]

Unsigned(s) == IF s # <<>> /\ s[1] \in {"-", "+"} THEN Tail(s) ELSE s

int(s) ==
    IF Unsigned(s) # <<>> /\ \A i \in 1..Len(Unsigned(s)) : Unsigned(s)[i] \in Digits
    THEN [ok |-> TRUE,
          val |-> IF s[1] = "-" THEN 0 - DecimalValue(Unsigned(s))
                  ELSE DecimalValue(Unsigned(s))]
    ELSE [ok |-> FALSE, val |-> 0]

(* RecipeViewSet.params_to_int: [int(str_id) for str_id in qs.split(',')]  *)
params_to_int(qs) ==
    LET parts == split(qs)
    IN  IF \A i \in 1..Len(parts) : int(parts[i]).ok
        THEN [ok |-> TRUE, val |-> [i \in 1..Len(parts) |-> int(parts[i]).val]]
        ELSE [ok |-> FALSE, val |-> <<>>]

(***************************************************************************)
(* request.query_params: a function from the names given in the URL to     *)
(* their values.  get(name) is None when the name is absent; Given is the  *)
(* truth value Python gives the result (None and '' are false).            *)
(***************************************************************************)
Has(qp, name) == name \in DOMAIN qp
Given(qp, name) == Has(qp, name) /\ qp[name] # <<>>

(***************************************************************************)
(* Queryset operations.  A queryset is the sequence of rows (ids) its SQL  *)
(* produces: a filter across a many-to-many relation joins, so a row       *)
(* appears once per matching link; distinct() removes the repetitions.     *)
(***************************************************************************)
Recipe_objects_all == SetToSeq(DOMAIN recipes)

Attr_objects_all(kind) == SetToSeq(DOMAIN attrs[kind])

(* qs.filter(tags__id__in=ids) / qs.filter(ingredients__id__in=ids)        *)
filter_attr_id_in(qs, kind, ids) ==
    Concat([i \in 1..Len(qs) |->
        Replicate(qs[i], Cardinality(recipes[qs[i]][kind] \cap Range(ids)))])

(* Variant: the filter on recipe__isnull is left out.                      *)
filter_recipe_notnull_Omitted(qs, kind) == qs

(* qs.filter(recipe__isnull=False)                                         *)
filter_recipe_notnull(qs, kind) ==
    Concat([i \in 1..Len(qs) |->
        Replicate(qs[i],
            Cardinality({r \in DOMAIN recipes : qs[i] \in recipes[r][kind]}))])

(* Variant: the filter on user is left out.                                *)
filter_user_Omitted(qs, table, user) == qs

(* qs.filter(user=self.request.user)                                       *)
filter_user(qs, table, user) ==
    SelectSeq(qs, LAMBDA id : table[id].user = user)

(* Variant: order_by('key'), ascending.                                    *)
RECURSIVE order_by_asc(_, _)
order_by_asc(qs, key) ==
    IF qs = <<>> THEN {<<>>}
    ELSE LET bottom == Min({key[qs[i]] : i \in 1..Len(qs)})
         IN  UNION {{<<qs[i]>> \o rest : rest \in order_by_asc(RemoveAt(qs, i), key)} :
                      i \in {j \in 1..Len(qs) : key[qs[j]] = bottom}}

(***************************************************************************)
(* order_by('-key'): every arrangement of the rows that is non-increasing  *)
(* in the key.  Rows with equal keys come in an order the database         *)
(* chooses, so the result is the set of the possible sequences.            *)
(***************************************************************************)
RECURSIVE order_by_desc(_, _)
order_by_desc(qs, key) ==
    IF qs = <<>> THEN {<<>>}
    ELSE LET top == Max({key[qs[i]] : i \in 1..Len(qs)})
         IN  UNION {{<<qs[i]>> \o rest : rest \in order_by_desc(RemoveAt(qs, i), key)} :
                      i \in {j \in 1..Len(qs) : key[qs[j]] = top}}

(* Variant: distinct() is left out.                                        *)
distinct_Omitted(qs) == qs

(* distinct(): the first occurrence of every row is kept                   *)
distinct(qs) ==
    SelectSeq([i \in 1..Len(qs) |->
                  IF \E j \in 1..(i - 1) : qs[j] = qs[i] THEN 0 ELSE qs[i]],
              LAMBDA id : id # 0)

IdKey == [id \in DOMAIN recipes |-> id]
NameKey(kind) == [id \in DOMAIN attrs[kind] |-> attrs[kind][id].name]

(***************************************************************************)
(* RecipeViewSet.get_queryset.  The result is [ok, rows]: ok is FALSE when *)
(* params_to_int raised; rows is the set of row sequences the query may    *)
(* return.                                                                 *)
(***************************************************************************)
RecipeViewSet_get_queryset(qp, user) ==
    LET tag_ids == IF Given(qp, "tags") THEN params_to_int(qp["tags"])
                   ELSE [ok |-> TRUE, val |-> <<>>]
        ingredient_ids ==
                   IF Given(qp, "ingredients") THEN params_to_int(qp["ingredients"])
                   ELSE [ok |-> TRUE, val |-> <<>>]
        qs0 == Recipe_objects_all
        qs1 == IF Given(qp, "tags") THEN filter_attr_id_in(qs0, "tags", tag_ids.val)
               ELSE qs0
        qs2 == IF Given(qp, "ingredients")
               THEN filter_attr_id_in(qs1, "ingredients", ingredient_ids.val)
               ELSE qs1
    IN  IF tag_ids.ok /\ ingredient_ids.ok
        THEN [ok |-> TRUE,
              rows |-> {distinct(s) :
                          s \in order_by_desc(filter_user(qs2, recipes, user), IdKey)}]
        ELSE [ok |-> FALSE, rows |-> {}]

(***************************************************************************)
(* BaseRecipeAttrViewSet.get_queryset, for the table TagViewSet or         *)
(* IngredientViewSet binds (kind).                                         *)
(***************************************************************************)
BaseRecipeAttrViewSet_get_queryset(kind, qp, user) ==
    LET raw == IF Has(qp, "assigned_only") THEN int(qp["assigned_only"])
               ELSE [ok |-> TRUE, val |-> 0]
        assigned_only == raw.val # 0
        qs0 == Attr_objects_all(kind)
        qs1 == IF assigned_only THEN filter_recipe_notnull(qs0, kind) ELSE qs0
    IN  IF raw.ok
        THEN [ok |-> TRUE,
              rows |-> {distinct(s) :
                          s \in order_by_desc(filter_user(qs1, attrs[kind], user),
                                              NameKey(kind))}]
        ELSE [ok |-> FALSE, rows |-> {}]

(* Variant: permission_classes admits every request.                      *)
IsAuthenticated_AllowAny(user) == TRUE

(***************************************************************************)
(* Authentication and permission: TokenAuthentication resolves the token   *)
(* to a user or to none; IsAuthenticated admits only a resolved user.  The *)
(* check runs before the handler is chosen.                                *)
(***************************************************************************)
IsAuthenticated(user) == user \in Users

(* The actions the tag and ingredient view sets route (the mixins of the   *)
(* base class); any other is 405 Method Not Allowed.  RecipeViewSet is a   *)
(* ModelViewSet and routes them all.                                       *)
(* Variant: the base view set also mixes in CreateModelMixin.              *)
BaseRecipeAttrViewSet_actions_WithCreate == {"destroy", "update", "list", "create"}

BaseRecipeAttrViewSet_actions == {"destroy", "update", "list"}

(* RecipeViewSet.get_serializer_class                                      *)
get_serializer_class(action) ==
    IF action = "list" THEN "RecipeSerializer"
    ELSE IF action = "upload_image" THEN "RecipeImageSerializer"
    ELSE "RecipeDetailSerializer"

(* serializer.data: the representation of a recipe in the chosen shape     *)
RecipeData(shape, id, rec) ==
    IF shape = "RecipeImageSerializer"
    THEN [shape |-> shape, id |-> id, image |-> rec.image]
    ELSE IF shape = "RecipeSerializer"
    THEN [shape |-> shape, id |-> id, tags |-> rec.tags,
          ingredients |-> rec.ingredients]
    ELSE [shape |-> shape, id |-> id, tags |-> rec.tags,
          ingredients |-> rec.ingredients, image |-> rec.image]

AttrData(kind, id, rec) == [shape |-> kind, id |-> id, name |-> rec.name]

(* Variant: serializer.save() without user=, the payload's user is kept.   *)
perform_create_user_FromPayload(request_user, data) == data.user

(* RecipeViewSet.perform_create: serializer.save(user=self.request.user).  *)
(* The keyword argument replaces whatever the payload gave for user.       *)
perform_create_user(request_user, data) == request_user

(***************************************************************************)
(* Requests and responses.                                                 *)
(***************************************************************************)
NoData == [valid |-> TRUE]

Request(user, endpoint, action, pk, qp, data) ==
    [user |-> user, endpoint |-> endpoint, action |-> action, pk |-> pk,
     qp |-> qp, data |-> data]

Response(status, body) == [status |-> status, body |-> body]

(* Between requests there is no request object and no response.            *)
NoRequest == [user |-> Anonymous, endpoint |-> "none", action |-> "none", pk |-> 0,
              qp |-> <<>>, data |-> [valid |-> TRUE]]
NoResponse == [status |-> 0, body |-> <<>>]
Idle == request = NoRequest

HTTP_200_OK == 200
HTTP_201_CREATED == 201
HTTP_204_NO_CONTENT == 204
HTTP_400_BAD_REQUEST == 400
HTTP_401_UNAUTHORIZED == 401
HTTP_404_NOT_FOUND == 404
HTTP_405_METHOD_NOT_ALLOWED == 405
HTTP_500_INTERNAL_SERVER_ERROR == 500

Without(table, id) == [i \in DOMAIN table \ {id} |-> table[i]]

(***************************************************************************)
(* Inputs.                                                                 *)
(***************************************************************************)
TagsStrings ==
    {<<"1">>, <<"2">>, <<"1", ",", "2">>, <<"x">>, <<"1", ",">>}

IngredientsStrings == {<<"1">>, <<"x">>}

AssignedOnlyStrings == {<<"0">>, <<"1">>, <<"x">>}

NoParams == <<>>

RecipeListParams ==
    {NoParams}
    \cup {[tags |-> t] : t \in TagsStrings}
    \cup {[ingredients |-> i] : i \in IngredientsStrings}
    \cup {[tags |-> t, ingredients |-> i] : t \in TagsStrings, i \in IngredientsStrings}

RecipeDetailParams == {NoParams, [tags |-> <<"2">>], [tags |-> <<"x">>]}

AttrListParams == {NoParams} \cup {[assigned_only |-> a] : a \in AssignedOnlyStrings}

AttrDetailParams == {NoParams, [assigned_only |-> <<"1">>], [assigned_only |-> <<"x">>]}

(* The rows of a table that belong to a user.                              *)
Owned(table, user) == {id \in DOMAIN table : table[id].user = user}

(* A recipe payload names the tags and ingredients to link, which the      *)
(* serializer resolves among the requesting user's rows.  A payload also   *)
(* carries a user field with whatever the client wrote.  One invalid       *)
(* payload stands for all.                                                 *)
InvalidRecipePayload == [valid |-> FALSE, user |-> Anonymous, tags |-> {}, ingredients |-> {}]

ValidRecipePayloads(user, user_fields) ==
    [valid : {TRUE}, user : user_fields,
     tags : SUBSET Owned(attrs.tags, user),
     ingredients : SUBSET Owned(attrs.ingredients, user)]

InvalidImagePayload == [valid |-> FALSE, image |-> NoImage]
ValidImagePayloads == [valid : {TRUE}, image : Images]

InvalidAttrPayload == [valid |-> FALSE, name |-> 1]
ValidAttrPayloads == [valid : {TRUE}, name : Names]

(***************************************************************************)
(* A profile says where the requests of a specification vary.  Where a     *)
(* profile is rich, every input of the sets above is tried: all its        *)
(* parameter strings, every id given out so far and the next one (which no *)
(* row has), valid and invalid payloads.  Where it is not, the requests    *)
(* are the plain ones: no query parameters, the id of a row the requester  *)
(* owns, a valid payload.  Every profile has every operation, so the       *)
(* tables reach the same contents under all of them.                       *)
(***************************************************************************)
Full == [lists |-> TRUE, recipes |-> TRUE, attrs |-> TRUE, anonymous |-> TRUE]
Query == [lists |-> TRUE, recipes |-> FALSE, attrs |-> FALSE, anonymous |-> FALSE]
RecipeRequests == [lists |-> FALSE, recipes |-> TRUE, attrs |-> FALSE, anonymous |-> FALSE]
AttrRequests == [lists |-> FALSE, recipes |-> FALSE, attrs |-> TRUE, anonymous |-> TRUE]

RequestersOf(P) == IF P.anonymous THEN Requesters ELSE Users

(* An unauthenticated request is rejected before its inputs are read: one  *)
(* representative of them is enough.                                       *)
InputsOf(user, rich, inputs, plain, representative) ==
    IF user = Anonymous THEN {representative}
    ELSE IF rich THEN inputs ELSE plain

RecipeIds == 1..(seq.recipes + 1)
AttrIds(kind) == 1..(seq[kind] + 1)

(***************************************************************************)
(* Initial state: empty tables, no request served yet.                     *)
(***************************************************************************)
Init ==
    /\ recipes = <<>>
    /\ attrs = [tags |-> <<>>, ingredients |-> <<>>]
    /\ seq = [recipes |-> 0, tags |-> 0, ingredients |-> 0]
    /\ request = NoRequest
    /\ response = NoResponse

(* The tables hold at most MaxRows rows over a run: ids are never reused.  *)
RowsLeft == seq.recipes + seq.tags + seq.ingredients < MaxRows

Reject(status) ==
    /\ response' = Response(status, <<>>)
    /\ UNCHANGED <<recipes, attrs, seq>>

(***************************************************************************)
(* The persistence layer stores a tag or an ingredient for a user.         *)
(***************************************************************************)
SaveAttr(kind, user, name) ==
    /\ Idle
    /\ RowsLeft
    /\ seq' = [seq EXCEPT ![kind] = @ + 1]
    /\ attrs' = [attrs EXCEPT ![kind] =
                    @ @@ (seq[kind] + 1 :> [user |-> user, name |-> name])]
    /\ UNCHANGED <<recipes, request, response>>

(***************************************************************************)
(* Recipe endpoint.                                                        *)
(***************************************************************************)
RecipeList(user, qp) ==
    /\ Idle
    /\ request' = Request(user, "recipes", "list", 0, qp, NoData)
    /\ IF ~IsAuthenticated(user) THEN Reject(HTTP_401_UNAUTHORIZED)
       ELSE LET q == RecipeViewSet_get_queryset(qp, user)
            IN  IF ~q.ok THEN Reject(HTTP_500_INTERNAL_SERVER_ERROR)
                ELSE /\ \E rows \in q.rows :
                          response' = Response(HTTP_200_OK,
                              [i \in 1..Len(rows) |->
                                  RecipeData(get_serializer_class("list"),
                                             rows[i], recipes[rows[i]])])
                     /\ UNCHANGED <<recipes, attrs, seq>>

RecipeCreate(user, data) ==
    /\ Idle
    /\ request' = Request(user, "recipes", "create", 0, NoParams,
                           [valid |-> data.valid, user |-> data.user])
    /\ IF ~IsAuthenticated(user) THEN Reject(HTTP_401_UNAUTHORIZED)
       ELSE IF ~data.valid THEN Reject(HTTP_400_BAD_REQUEST)
       ELSE LET id == seq.recipes + 1
                rec == [user |-> perform_create_user(user, data), image |-> NoImage,
                        tags |-> data.tags, ingredients |-> data.ingredients]
            IN  /\ RowsLeft
                /\ seq' = [seq EXCEPT !.recipes = id]
                /\ recipes' = recipes @@ (id :> rec)
                /\ response' = Response(HTTP_201_CREATED,
                       <<RecipeData(get_serializer_class("create"), id, rec)>>)
                /\ UNCHANGED attrs

(***************************************************************************)
(* get_object: the row of the view's queryset whose id is pk.  The result  *)
(* is the status the lookup ends with (200 when the row is found).         *)
(***************************************************************************)
get_object_status(q, pk) ==
    IF ~q.ok THEN HTTP_500_INTERNAL_SERVER_ERROR
    ELSE IF \E rows \in q.rows : pk \in Range(rows) THEN HTTP_200_OK
    ELSE HTTP_404_NOT_FOUND

RecipeRetrieve(user, pk, qp) ==
    /\ Idle
    /\ request' = Request(user, "recipes", "retrieve", pk, qp, NoData)
    /\ IF ~IsAuthenticated(user) THEN Reject(HTTP_401_UNAUTHORIZED)
       ELSE LET found == get_object_status(RecipeViewSet_get_queryset(qp, user), pk)
            IN  IF found # HTTP_200_OK THEN Reject(found)
                ELSE /\ response' = Response(HTTP_200_OK,
                            <<RecipeData(get_serializer_class("retrieve"), pk, recipes[pk])>>)
                     /\ UNCHANGED <<recipes, attrs, seq>>

RecipeUpdate(user, pk, qp, data) ==
    /\ Idle
    /\ request' = Request(user, "recipes", "update", pk, qp, [valid |-> data.valid])
    /\ IF ~IsAuthenticated(user) THEN Reject(HTTP_401_UNAUTHORIZED)
       ELSE LET found == get_object_status(RecipeViewSet_get_queryset(qp, user), pk)
                rec == [recipes[pk] EXCEPT !.tags = data.tags,
                                           !.ingredients = data.ingredients]
            IN  IF found # HTTP_200_OK THEN Reject(found)
                ELSE IF ~data.valid THEN Reject(HTTP_400_BAD_REQUEST)
                ELSE /\ recipes' = [recipes EXCEPT ![pk] = rec]
                     /\ response' = Response(HTTP_200_OK,
                            <<RecipeData(get_serializer_class("update"), pk, rec)>>)
                     /\ UNCHANGED <<attrs, seq>>

RecipeDestroy(user, pk, qp) ==
    /\ Idle
    /\ request' = Request(user, "recipes", "destroy", pk, qp, NoData)
    /\ IF ~IsAuthenticated(user) THEN Reject(HTTP_401_UNAUTHORIZED)
       ELSE LET found == get_object_status(RecipeViewSet_get_queryset(qp, user), pk)
            IN  IF found # HTTP_200_OK THEN Reject(found)
                ELSE /\ recipes' = Without(recipes, pk)
                     /\ response' = Response(HTTP_204_NO_CONTENT, <<>>)
                     /\ UNCHANGED <<attrs, seq>>

(* Variant: serializer.save() is called whether or not the payload is     *)
(* valid.                                                                  *)
upload_image_SavesInvalid(user, pk, qp, data) ==
    /\ Idle
    /\ request' = Request(user, "recipes", "upload_image", pk, qp, data)
    /\ IF ~IsAuthenticated(user) THEN Reject(HTTP_401_UNAUTHORIZED)
       ELSE LET found == get_object_status(RecipeViewSet_get_queryset(qp, user), pk)
                rec == [recipes[pk] EXCEPT !.image = data.image]
            IN  IF found # HTTP_200_OK THEN Reject(found)
                ELSE /\ recipes' = [recipes EXCEPT ![pk] = rec]
                     /\ response' =
                            IF data.valid
                            THEN Response(HTTP_200_OK,
                                     <<RecipeData(get_serializer_class("upload_image"),
                                                  pk, rec)>>)
                            ELSE Response(HTTP_400_BAD_REQUEST, <<"image">>)
                     /\ UNCHANGED <<attrs, seq>>

(* RecipeViewSet.upload_image                                              *)
upload_image(user, pk, qp, data) ==
    /\ Idle
    /\ request' = Request(user, "recipes", "upload_image", pk, qp, data)
    /\ IF ~IsAuthenticated(user) THEN Reject(HTTP_401_UNAUTHORIZED)
       ELSE LET found == get_object_status(RecipeViewSet_get_queryset(qp, user), pk)
                rec == [recipes[pk] EXCEPT !.image = data.image]
            IN  IF found # HTTP_200_OK THEN Reject(found)
                ELSE IF data.valid
                THEN /\ recipes' = [recipes EXCEPT ![pk] = rec]
                     /\ response' = Response(HTTP_200_OK,
                            <<RecipeData(get_serializer_class("upload_image"), pk, rec)>>)
                     /\ UNCHANGED <<attrs, seq>>
                ELSE /\ response' = Response(HTTP_400_BAD_REQUEST, <<"image">>)
                     /\ UNCHANGED <<recipes, attrs, seq>>

(***************************************************************************)
(* Tag and ingredient endpoints (TagViewSet, IngredientViewSet): kind is   *)
(* the table the view set binds.                                           *)
(***************************************************************************)
AttrList(kind, user, qp) ==
    /\ Idle
    /\ request' = Request(user, kind, "list", 0, qp, NoData)
    /\ IF ~IsAuthenticated(user) THEN Reject(HTTP_401_UNAUTHORIZED)
       ELSE IF "list" \notin BaseRecipeAttrViewSet_actions
       THEN Reject(HTTP_405_METHOD_NOT_ALLOWED)
       ELSE LET q == BaseRecipeAttrViewSet_get_queryset(kind, qp, user)
            IN  IF ~q.ok THEN Reject(HTTP_500_INTERNAL_SERVER_ERROR)
                ELSE /\ \E rows \in q.rows :
                          response' = Response(HTTP_200_OK,
                              [i \in 1..Len(rows) |->
                                  AttrData(kind, rows[i], attrs[kind][rows[i]])])
                     /\ UNCHANGED <<recipes, attrs, seq>>

AttrCreate(kind, user, data) ==
    /\ Idle
    /\ request' = Request(user, kind, "create", 0, NoParams, [valid |-> data.valid])
    /\ IF ~IsAuthenticated(user) THEN Reject(HTTP_401_UNAUTHORIZED)
       ELSE IF "create" \notin BaseRecipeAttrViewSet_actions
       THEN Reject(HTTP_405_METHOD_NOT_ALLOWED)
       ELSE IF ~data.valid THEN Reject(HTTP_400_BAD_REQUEST)
       ELSE LET id == seq[kind] + 1
                rec == [user |-> user, name |-> data.name]
            IN  /\ RowsLeft
                /\ seq' = [seq EXCEPT ![kind] = id]
                /\ attrs' = [attrs EXCEPT ![kind] = @ @@ (id :> rec)]
                /\ response' = Response(HTTP_201_CREATED, <<AttrData(kind, id, rec)>>)
                /\ UNCHANGED recipes

AttrRetrieve(kind, user, pk, qp) ==
    /\ Idle
    /\ request' = Request(user, kind, "retrieve", pk, qp, NoData)
    /\ IF ~IsAuthenticated(user) THEN Reject(HTTP_401_UNAUTHORIZED)
       ELSE IF "retrieve" \notin BaseRecipeAttrViewSet_actions
       THEN Reject(HTTP_405_METHOD_NOT_ALLOWED)
       ELSE LET found == get_object_status(
                             BaseRecipeAttrViewSet_get_queryset(kind, qp, user), pk)
            IN  IF found # HTTP_200_OK THEN Reject(found)
                ELSE /\ response' = Response(HTTP_200_OK,
                            <<AttrData(kind, pk, attrs[kind][pk])>>)
                     /\ UNCHANGED <<recipes, attrs, seq>>

AttrUpdate(kind, user, pk, qp, data) ==
    /\ Idle
    /\ request' = Request(user, kind, "update", pk, qp, [valid |-> data.valid])
    /\ IF ~IsAuthenticated(user) THEN Reject(HTTP_401_UNAUTHORIZED)
       ELSE IF "update" \notin BaseRecipeAttrViewSet_actions
       THEN Reject(HTTP_405_METHOD_NOT_ALLOWED)
       ELSE LET found == get_object_status(
                             BaseRecipeAttrViewSet_get_queryset(kind, qp, user), pk)
                rec == [attrs[kind][pk] EXCEPT !.name = data.name]
            IN  IF found # HTTP_200_OK THEN Reject(found)
                ELSE IF ~data.valid THEN Reject(HTTP_400_BAD_REQUEST)
                ELSE /\ attrs' = [attrs EXCEPT ![kind][pk] = rec]
                     /\ response' = Response(HTTP_200_OK, <<AttrData(kind, pk, rec)>>)
                     /\ UNCHANGED <<recipes, seq>>

(* Deleting a tag or an ingredient deletes its links to recipes.           *)
AttrDestroy(kind, user, pk, qp) ==
    /\ Idle
    /\ request' = Request(user, kind, "destroy", pk, qp, NoData)
    /\ IF ~IsAuthenticated(user) THEN Reject(HTTP_401_UNAUTHORIZED)
       ELSE IF "destroy" \notin BaseRecipeAttrViewSet_actions
       THEN Reject(HTTP_405_METHOD_NOT_ALLOWED)
       ELSE LET found == get_object_status(
                             BaseRecipeAttrViewSet_get_queryset(kind, qp, user), pk)
            IN  IF found # HTTP_200_OK THEN Reject(found)
                ELSE /\ attrs' = [attrs EXCEPT ![kind] = Without(@, pk)]
                     /\ recipes' = [r \in DOMAIN recipes |->
                                       [recipes[r] EXCEPT ![kind] = @ \ {pk}]]
                     /\ response' = Response(HTTP_204_NO_CONTENT, <<>>)
                     /\ UNCHANGED seq

(***************************************************************************)
(* The response is returned and the request ends; requests are served one  *)
(* at a time.                                                              *)
(***************************************************************************)
Finish ==
    /\ ~Idle
    /\ request' = NoRequest
    /\ response' = NoResponse
    /\ UNCHANGED <<recipes, attrs, seq>>

(***************************************************************************)
(* The specifications: Spec tries every input everywhere; the others vary  *)
(* the requests of one kind (see the profiles).                            *)
(***************************************************************************)
NextOf(P) ==
    \/ Idle /\ \E kind \in Kinds, user \in Users, name \in Names :
         SaveAttr(kind, user, name)
    \/ Idle /\ \E user \in RequestersOf(P) :
         \E qp \in InputsOf(user, P.lists, RecipeListParams, {NoParams}, NoParams) :
            RecipeList(user, qp)
    \/ Idle /\ \E user \in RequestersOf(P) :
         \E data \in InputsOf(user, P.recipes,
                        ValidRecipePayloads(user, Users) \cup {InvalidRecipePayload},
                        ValidRecipePayloads(user, {user}), InvalidRecipePayload) :
            RecipeCreate(user, data)
    \/ Idle /\ \E user \in RequestersOf(P) :
         \E pk \in InputsOf(user, P.recipes, RecipeIds, Owned(recipes, user), 1),
            qp \in InputsOf(user, P.recipes, RecipeDetailParams, {NoParams}, NoParams) :
            RecipeRetrieve(user, pk, qp)
    \/ Idle /\ \E user \in RequestersOf(P) :
         \E pk \in InputsOf(user, P.recipes, RecipeIds, Owned(recipes, user), 1),
            qp \in InputsOf(user, P.recipes, RecipeDetailParams, {NoParams}, NoParams),
            data \in InputsOf(user, P.recipes,
                        ValidRecipePayloads(user, Users \ {user}) \cup {InvalidRecipePayload},
                        ValidRecipePayloads(user, {user}), InvalidRecipePayload) :
            RecipeUpdate(user, pk, qp, data)
    \/ Idle /\ \E user \in RequestersOf(P) :
         \E pk \in InputsOf(user, P.recipes, RecipeIds, Owned(recipes, user), 1),
            qp \in InputsOf(user, P.recipes, RecipeDetailParams, {NoParams}, NoParams) :
            RecipeDestroy(user, pk, qp)
    \/ Idle /\ \E user \in RequestersOf(P) :
         \E pk \in InputsOf(user, P.recipes, RecipeIds, Owned(recipes, user), 1),
            qp \in InputsOf(user, P.recipes, RecipeDetailParams, {NoParams}, NoParams),
            data \in InputsOf(user, P.recipes,
                        ValidImagePayloads \cup {InvalidImagePayload},
                        ValidImagePayloads, InvalidImagePayload) :
            upload_image(user, pk, qp, data)
    \/ Idle /\ \E kind \in Kinds, user \in RequestersOf(P) :
         \E qp \in InputsOf(user, P.lists, AttrListParams, {NoParams}, NoParams) :
            AttrList(kind, user, qp)
    \/ Idle /\ \E kind \in Kinds, user \in RequestersOf(P) :
         \E data \in InputsOf(user, P.attrs,
                        ValidAttrPayloads \cup {InvalidAttrPayload},
                        {[valid |-> TRUE, name |-> 1]}, InvalidAttrPayload) :
            AttrCreate(kind, user, data)
    \/ Idle /\ \E kind \in Kinds, user \in RequestersOf(P) :
         \E pk \in InputsOf(user, P.attrs, AttrIds(kind), Owned(attrs[kind], user), 1),
            qp \in InputsOf(user, P.attrs, AttrDetailParams, {NoParams}, NoParams) :
            AttrRetrieve(kind, user, pk, qp)
    \/ Idle /\ \E kind \in Kinds, user \in RequestersOf(P) :
         \E pk \in InputsOf(user, P.attrs, AttrIds(kind), Owned(attrs[kind], user), 1),
            qp \in InputsOf(user, P.attrs, AttrDetailParams, {NoParams}, NoParams),
            data \in InputsOf(user, P.attrs,
                        ValidAttrPayloads \cup {InvalidAttrPayload},
                        ValidAttrPayloads, InvalidAttrPayload) :
            AttrUpdate(kind, user, pk, qp, data)
    \/ Idle /\ \E kind \in Kinds, user \in RequestersOf(P) :
         \E pk \in InputsOf(user, P.attrs, AttrIds(kind), Owned(attrs[kind], user), 1),
            qp \in InputsOf(user, P.attrs, AttrDetailParams, {NoParams}, NoParams) :
            AttrDestroy(kind, user, pk, qp)
    \/ Finish

Next == NextOf(Full)
NextQuery == NextOf(Query)
NextRecipeRequests == NextOf(RecipeRequests)
NextAttrRequests == NextOf(AttrRequests)

Spec == Init /\ [][Next]_vars
SpecQuery == Init /\ [][NextQuery]_vars
SpecRecipeRequests == Init /\ [][NextRecipeRequests]_vars
SpecAttrRequests == Init /\ [][NextAttrRequests]_vars

(***************************************************************************)
(* Vocabulary of the properties.                                           *)
(***************************************************************************)
Served(endpoint, action) == request.endpoint = endpoint /\ request.action = action

Table(endpoint) == IF endpoint = "recipes" THEN recipes ELSE attrs[endpoint]

BodyIds == [i \in 1..Len(response.body) |-> response.body[i].id]

NoDuplicates(s) == \A i, j \in 1..Len(s) : s[i] = s[j] => i = j

(* A parameter value that is a comma-separated list of unsigned integers.  *)
IsIdList(s) ==
    \A part \in Range(split(s)) :
        part # <<>> /\ \A c \in Range(part) : c \in Digits

IdsOf(s) == {DecimalValue(part) : part \in Range(split(s))}

(* C1: a list request by an authenticated user never returns a row of      *)
(* recipes, tags or ingredients that another user owns, whatever the       *)
(* tags, ingredients or assigned_only parameters are.                      *)
C1_ListIsolation ==
    request.action = "list" =>
        \A i \in 1..Len(response.body) :
            /\ response.body[i].id \in DOMAIN Table(request.endpoint)
            /\ Table(request.endpoint)[response.body[i].id].user = request.user

(* U2 lists with a filter and gets rows while U1 owns rows of that table.  *)
C1_Witness ==
    /\ request.action = "list"
    /\ request.user = "U2"
    /\ request.qp # NoParams
    /\ response.status = HTTP_200_OK
    /\ response.body # <<>>
    /\ \E id \in DOMAIN Table(request.endpoint) :
           Table(request.endpoint)[id].user = "U1"

(* C3: a recipe list request whose tags / ingredients parameters are id    *)
(* lists returns exactly the requester's recipes linked to at least one    *)
(* listed tag (when tags is given) and at least one listed ingredient      *)
(* (when ingredients is given), each exactly once.                         *)
MatchesFilter(id, qp, kind) ==
    Given(qp, kind) => recipes[id][kind] \cap IdsOf(qp[kind]) # {}

C3_RecipeFilter ==
    (/\ Served("recipes", "list")
     /\ request.user \in Users
     /\ \A kind \in Kinds : Given(request.qp, kind) => IsIdList(request.qp[kind]))
    => /\ response.status = HTTP_200_OK
       /\ NoDuplicates(BodyIds)
       /\ Range(BodyIds) =
              {id \in DOMAIN recipes :
                  /\ recipes[id].user = request.user
                  /\ MatchesFilter(id, request.qp, "tags")
                  /\ MatchesFilter(id, request.qp, "ingredients")}

(* tags=1,2 returns a recipe that is linked to both tag 1 and tag 2.       *)
C3_Witness ==
    /\ Served("recipes", "list")
    /\ Given(request.qp, "tags")
    /\ request.qp["tags"] = <<"1", ",", "2">>
    /\ \E i \in 1..Len(response.body) : {1, 2} \subseteq response.body[i].tags

(* C4: a tag or ingredient list request with assigned_only=1 returns       *)
(* exactly the requester's rows linked to at least one recipe, each once;  *)
(* with assigned_only=0 or without the parameter, all of the requester's   *)
(* rows.                                                                   *)
Assigned(kind, id) == \E r \in DOMAIN recipes : id \in recipes[r][kind]

C4_AssignedOnly ==
    (/\ request.endpoint \in Kinds
     /\ request.action = "list"
     /\ request.user \in Users
     /\ Has(request.qp, "assigned_only") =>
            request.qp["assigned_only"] \in {<<"0">>, <<"1">>})
    => /\ response.status = HTTP_200_OK
       /\ NoDuplicates(BodyIds)
       /\ Range(BodyIds) =
              {id \in Owned(attrs[request.endpoint], request.user) :
                  (/\ Has(request.qp, "assigned_only")
                   /\ request.qp["assigned_only"] = <<"1">>)
                  => Assigned(request.endpoint, id)}

(* assigned_only=1 returns a tag that two recipes are linked to, and the   *)
(* requester also owns a tag that no recipe is linked to.                  *)
C4_Witness ==
    /\ Served("tags", "list")
    /\ request.qp = [assigned_only |-> <<"1">>]
    /\ \E i \in 1..Len(response.body) :
           Cardinality({r \in DOMAIN recipes : response.body[i].id \in recipes[r].tags}) >= 2

(* C6: a recipe list request whose tags or ingredients parameter holds a   *)
(* non-integer id fails with a client error (4xx).                         *)
C6_MalformedIsClientError ==
    (/\ Served("recipes", "list")
     /\ request.user \in Users
     /\ \E kind \in Kinds : Given(request.qp, kind) /\ ~IsIdList(request.qp[kind]))
    => response.status \in 400..499

(* A malformed tags parameter on a recipe list request.                    *)
C6_Witness ==
    /\ Served("recipes", "list")
    /\ request.user \in Users
    /\ Given(request.qp, "tags")
    /\ ~IsIdList(request.qp["tags"])
    /\ response.status = HTTP_500_INTERNAL_SERVER_ERROR

Serving == Idle /\ request' # NoRequest

TablesUnchanged == recipes' = recipes /\ attrs' = attrs /\ seq' = seq

(* C2: a recipe created through the recipe endpoint is owned by the        *)
(* requester whatever the payload's user field says, and no request        *)
(* changes the owner of a stored recipe.                                   *)
C2_Step ==
    Serving =>
        /\ (/\ request'.endpoint = "recipes"
            /\ request'.action = "create"
            /\ response'.status = HTTP_201_CREATED)
           => /\ DOMAIN recipes' = DOMAIN recipes \cup {seq'.recipes}
              /\ seq'.recipes \notin DOMAIN recipes
              /\ recipes'[seq'.recipes].user = request'.user
        /\ \A id \in DOMAIN recipes \cap DOMAIN recipes' :
               recipes'[id].user = recipes[id].user

UploadOnOwn ==
    /\ Serving
    /\ request'.endpoint = "recipes"
    /\ request'.action = "upload_image"
    /\ request'.user \in Users
    /\ request'.pk \in DOMAIN recipes
    /\ recipes[request'.pk].user = request'.user

UploadStored ==
    /\ response'.status = HTTP_200_OK
    /\ recipes' = [recipes EXCEPT ![request'.pk].image = request'.data.image]
    /\ response'.body =
           <<[shape |-> "RecipeImageSerializer", id |-> request'.pk,
              image |-> request'.data.image]>>
    /\ attrs' = attrs /\ seq' = seq

UploadRefused ==
    /\ response'.status = HTTP_400_BAD_REQUEST
    /\ response'.body # <<>>
    /\ TablesUnchanged

(* C5 as stated: upload-image on an existing recipe of the requester has   *)
(* exactly two outcomes, 200 with the image stored for a valid payload and *)
(* 400 with nothing stored for an invalid one.                             *)
C5_TwoOutcomes_Step ==
    UploadOnOwn => IF request'.data.valid THEN UploadStored ELSE UploadRefused

C5_TwoOutcomes == [][C5_TwoOutcomes_Step]_vars

(* C5 as amended: the two outcomes are those of a request whose tags /     *)
(* ingredients query parameters are absent or are id lists the recipe      *)
(* matches; an id list the recipe does not match gives 404, a non-integer  *)
(* id gives 500, and in both cases nothing is stored.                      *)
UploadParamsOk ==
    \A kind \in Kinds : Given(request'.qp, kind) => IsIdList(request'.qp[kind])

UploadParamsMatch ==
    \A kind \in Kinds :
        Given(request'.qp, kind) =>
            recipes[request'.pk][kind] \cap IdsOf(request'.qp[kind]) # {}

C5_Outcomes_Step ==
    UploadOnOwn =>
        IF ~UploadParamsOk
        THEN response'.status = HTTP_500_INTERNAL_SERVER_ERROR /\ TablesUnchanged
        ELSE IF ~UploadParamsMatch
        THEN response'.status = HTTP_404_NOT_FOUND /\ TablesUnchanged
        ELSE IF request'.data.valid THEN UploadStored ELSE UploadRefused

C5_Outcomes == [][C5_Outcomes_Step]_vars

(* An invalid payload was refused for a recipe that already has an image.  *)
C5_Witness ==
    /\ Served("recipes", "upload_image")
    /\ response.status = HTTP_400_BAD_REQUEST
    /\ ~request.data.valid
    /\ request.pk \in DOMAIN recipes
    /\ recipes[request.pk].image # NoImage
    /\ recipes[request.pk].user = request.user

(* C8: the tag and ingredient endpoints reject create and retrieve, which  *)
(* change nothing, and no request to these endpoints adds a tag or an      *)
(* ingredient to any user's rows.                                          *)
C8_Step ==
    (Serving /\ request'.endpoint \in Kinds) =>
        /\ request'.action \in {"create", "retrieve"} =>
               /\ response'.status \in {HTTP_401_UNAUTHORIZED, HTTP_405_METHOD_NOT_ALLOWED}
               /\ request'.user \in Users =>
                      response'.status = HTTP_405_METHOD_NOT_ALLOWED
               /\ TablesUnchanged
        /\ \A kind \in Kinds : DOMAIN attrs'[kind] \subseteq DOMAIN attrs[kind]

C8_NoCreateNoRetrieve == [][C8_Step]_vars

(* A valid create request by an authenticated user was rejected.           *)
C8_Witness ==
    /\ Served("tags", "create")
    /\ request.user \in Users
    /\ request.data.valid
    /\ response.status = HTTP_405_METHOD_NOT_ALLOWED

(* C9: a request without a valid token fails with an authorization error,  *)
(* returns no rows and leaves every table unchanged.                       *)
C9_Step ==
    (Serving /\ request'.user = Anonymous) =>
        /\ response'.status \in {HTTP_401_UNAUTHORIZED, 403}
        /\ response'.body = <<>>
        /\ TablesUnchanged

C9_Unauthenticated == [][C9_Step]_vars

(* An unauthenticated delete of an existing recipe was refused.            *)
C9_Witness ==
    /\ Served("recipes", "destroy")
    /\ request.user = Anonymous
    /\ request.pk \in DOMAIN recipes
    /\ response.status = HTTP_401_UNAUTHORIZED

(* C10: retrieve, update, delete or upload-image by a user on the id of a  *)
(* row another user owns fails as not found and leaves the tables as they  *)
(* were.  (Retrieve and upload-image are requests to the recipe endpoint.) *)
OnForeignRow ==
    /\ Serving
    /\ request'.user \in Users
    /\ \/ /\ request'.endpoint = "recipes"
          /\ request'.action \in {"retrieve", "update", "destroy", "upload_image"}
       \/ /\ request'.endpoint \in Kinds
          /\ request'.action \in {"update", "destroy"}
    /\ request'.pk \in DOMAIN Table(request'.endpoint)
    /\ Table(request'.endpoint)[request'.pk].user # request'.user

C10_Step ==
    OnForeignRow => response'.status = HTTP_404_NOT_FOUND /\ TablesUnchanged

C10_ForeignNotFound == [][C10_Step]_vars

(* The frame half of C10 alone: a request on a foreign row fails and       *)
(* changes nothing.                                                        *)
C10_Frame_Step == OnForeignRow => TablesUnchanged /\ response'.status >= 400

C10_ForeignUnchanged == [][C10_Frame_Step]_vars

====
